---- MODULE Spec2Model ----
(***************************************************************************)
(* Model of the resume upload endpoint, src/app/api/upload-resume/route.ts *)
(* (POST): file validation, layered DOC/DOCX text extraction, the retry    *)
(* loop around the generative model, reply parsing and the error           *)
(* classification.  One request is followed from the arrival of its form   *)
(* data to its response; the handler is cut at its await points.           *)
(*                                                                         *)
(* Abstractions.  A file name is the sequence of its '.'-separated         *)
(* segments.  A text is a record [src, len, special]: the layer it came    *)
(* from, its length and the number of its characters outside               *)
(* [\w\s.,!?@()-].  An error message is the set of the substrings the      *)
(* handler tests for that occur in its lower-cased form.                   *)
(***************************************************************************)
EXTENDS Integers, Sequences, FiniteSets, TLC

\* ------------------------------------------------------------------ bounds
\* longest text a layer or the buffer yields
MaxLen == 100
\* most tested substrings one error message contains
MaxMarkers == 2

\* ------------------------------------------------------- program constants
maxRetries == 3
baseDelay == 1000
RawTextMin == 50
SalvageMin == 20
UnreadableMin == 10
GarbledMaxLen == 100
RawResponseMax == 1000

\* ------------------------------------------------------------------- files
allowedTypes ==
  { "application/pdf", "application/msword",
    "application/vnd.openxmlformats-officedocument.wordprocessingml.document",
    "text/plain", "image/jpeg", "image/jpg", "image/png" }

allowedExtensions == { "pdf", "doc", "docx", "txt", "jpeg", "jpg", "png" }

\* MIME types of the requests explored
MimeTypes ==
  { "application/pdf",
    "application/vnd.openxmlformats-officedocument.wordprocessingml.document",
    "text/plain", "image/png", "image/gif", "application/octet-stream" }

\* file names of the requests explored, split at '.'
FileNames ==
  { <<"cv", "pdf">>, <<"cv", "DOCX">>, <<"cv", "doc">>, <<"cv", "txt">>,
    <<"cv", "exe">>, <<"">> }

\* String.prototype.toLowerCase on the segments in use
toLowerCase(s) == IF s = "DOCX" THEN "docx" ELSE s

\* file.type.startsWith('image/')
startsWithImage(t) == t \in { "image/jpeg", "image/jpg", "image/png", "image/gif" }

Files == [ name : FileNames, type : MimeTypes ]
NoFile == [ name |-> <<>>, type |-> "no-file" ]
Malformed == [ name |-> <<>>, type |-> "malformed-body" ]
Requests == Files \cup { NoFile, Malformed }

\* fileName.toLowerCase().split('.').pop()
fileExtension(f) == toLowerCase(f.name[Len(f.name)])

isValidMimeType(f) == f.type \in allowedTypes

\* the extension is tested for truthiness only
isValidExtension_AnyExtension(f) == fileExtension(f) # ""

\* '' is falsy
isValidExtension(f) == fileExtension(f) # "" /\ fileExtension(f) \in allowedExtensions

\* line 39: the file is rejected
invalidFileType(f) == ~isValidMimeType(f) /\ ~isValidExtension(f)

Accepted(f) == f \in Files /\ (isValidMimeType(f) \/ isValidExtension(f))

isImageOrPdf(f) == startsWithImage(f.type) \/ f.type = "application/pdf"

isText(f) == f.type = "text/plain" \/ fileExtension(f) = "txt"

isWord(f) ==
  \/ f.type = "application/msword"
  \/ f.type = "application/vnd.openxmlformats-officedocument.wordprocessingml.document"
  \/ fileExtension(f) = "doc"
  \/ fileExtension(f) = "docx"

\* ------------------------------------------------------------------- texts
\* lengths explored: the thresholds of the code and one value below them
Lens == { 0, 9, UnreadableMin, SalvageMin, RawTextMin, MaxLen }

\* the texts a layer can yield: clean, or made of special characters only
TextsOf(src) ==
  UNION { { [ src |-> src, len |-> n, special |-> s ] : s \in { 0, n } } : n \in Lens }

\* let textContent = ''
EmptyText == [ src |-> "none", len |-> 0, special |-> 0 ]

\* outcome of a call of the document-conversion library
NotCalled == [ status |-> "not-called", value |-> EmptyText ]
Pending == [ status |-> "pending", value |-> EmptyText ]
Threw == [ status |-> "threw", value |-> EmptyText ]
Returned(v) == [ status |-> "returned", value |-> v ]

\* mammoth.extractRawText({ buffer }): textResult.value, or a rejection
RawOutcomes == { Threw } \cup { Returned(t) : t \in TextsOf("raw") }

\* htmlResult.value: markup around the text it carries
HtmlDocs == { [ src |-> "htmlContent", markup |-> 7, inner |-> t ] : t \in TextsOf("html") }
HtmlOutcomes == { Threw } \cup { Returned(h) : h \in HtmlDocs }

\* the .replace(...) chain and .trim() applied to htmlContent: the markup
\* is removed and the carried text is left
HtmlToText(h) == h.inner

\* the upload's bytes: the length of buffer.toString('utf-8') and what is
\* left of it once non-printable characters and whitespace runs are gone
Buffers ==
  UNION { { [ utf8Len |-> p, printable |-> t ] : t \in { u \in TextsOf("plain") : u.len <= p } } :
          p \in Lens }

\* plainText.replace(/[^\x20-\x7E\n\r\t]/g, ' ').replace(/\s+/g, ' ').trim()
PlainTextSalvage(b) == b.printable

\* buffer.toString('utf-8') of a text file
Utf8Text(b) == [ src |-> "utf8", len |-> b.utf8Len, special |-> 0 ]

\* the threshold itself counts as too short
needsHtml_Inclusive(text) == text.len <= RawTextMin

\* line 120: the HTML layer is tried
needsHtml(text) == text.len < RawTextMin

\* the plain-text layer also replaces a text of exactly the minimum length
AfterSalvage_Inclusive(text, method, b) ==
  IF text.len <= SalvageMin /\ b.utf8Len > text.len
    THEN [ text |-> PlainTextSalvage(b), method |-> "plain-text-fallback" ]
    ELSE [ text |-> text, method |-> method ]

\* lines 175-191: the plain-text layer, given the text and tag so far
AfterSalvage(text, method, b) ==
  IF text.len < SalvageMin /\ b.utf8Len > text.len
    THEN [ text |-> PlainTextSalvage(b), method |-> "plain-text-fallback" ]
    ELSE [ text |-> text, method |-> method ]

\* the plain-text layer reads the buffer
SalvageAttempted(text) == text.len < SalvageMin

\* specialCharRatio > 0.5 (0/0 is NaN, and NaN > 0.5 is false)
specialCharRatioHigh(text) == text.len > 0 /\ 2 * text.special > text.len

\* the test for garbled text is left out
DocErrorOf_NoGarbledCheck(text) ==
  IF text.len < UnreadableMin THEN "empty-or-unreadable" ELSE "none"

\* only an empty text counts as unreadable
DocErrorOf_EmptyOnly(text) ==
  IF text.len = 0 THEN "empty-or-unreadable"
  ELSE IF specialCharRatioHigh(text) /\ text.len < GarbledMaxLen THEN "corrupted-or-unsupported-encoding"
  ELSE "none"

\* lines 197-205: the two throws of the final validation
DocErrorOf(text) ==
  IF text.len < UnreadableMin THEN "empty-or-unreadable"
  ELSE IF specialCharRatioHigh(text) /\ text.len < GarbledMaxLen THEN "corrupted-or-unsupported-encoding"
  ELSE "none"

\* ------------------------------------------------------------------ prompts
NoPrompt == [ kind |-> "none", method |-> "none", text |-> EmptyText ]
FilePrompt(f) ==
  [ kind |-> IF f.type = "application/pdf" THEN "PDF" ELSE "image",
    method |-> "none", text |-> EmptyText ]
TextPrompt(t) == [ kind |-> "text", method |-> "none", text |-> t ]
DocPrompt(method, t) == [ kind |-> "document", method |-> method, text |-> t ]

\* ---------------------------------------------------------------- responses
EmptyExtractedData ==
  [ name |-> "", email |-> "", phone |-> "", skills |-> <<>>,
    experience |-> <<>>, education |-> <<>>, summary |-> "" ]

NoResponse == [ status |-> 0 ]

\* line 16
NoFileResponse == [ status |-> 400, error |-> "No file uploaded" ]
\* lines 40-42
InvalidTypeResponse == [ status |-> 400, error |-> "Invalid file type" ]
\* lines 68-70
NotConfiguredResponse == [ status |-> 500, error |-> "AI processing not configured" ]
\* lines 233-235
UnsupportedResponse == [ status |-> 400, error |-> "Unsupported file type" ]

\* lines 215-230
DocFallbackResponse(name, why) ==
  [ status |-> 200, success |-> TRUE, fileName |-> name,
    extractedData |-> EmptyExtractedData, aiProcessed |-> FALSE,
    message |-> <<"Document parsing failed", why>>, parseError |-> TRUE ]

\* lines 478-495
OverloadedResponse(name) ==
  [ status |-> 200, success |-> TRUE, fileName |-> name,
    extractedData |-> EmptyExtractedData, aiProcessed |-> FALSE, parseError |-> TRUE,
    message |-> <<"AI service is temporarily overloaded">>,
    retryRecommended |-> TRUE, estimatedRetryTime |-> "2-3 minutes" ]

\* lines 499-516
QuotaResponse(name) ==
  [ status |-> 200, success |-> TRUE, fileName |-> name,
    extractedData |-> EmptyExtractedData, aiProcessed |-> FALSE, parseError |-> TRUE,
    message |-> <<"AI service quota exceeded for today">>,
    retryRecommended |-> FALSE, quotaExceeded |-> TRUE ]

\* lines 520-523
CredentialResponse ==
  [ status |-> 401, error |-> "AI service configuration error",
    details |-> "Invalid or missing API key" ]

\* the generic fallback as a server error
GenericAiResponse_ServerError(name) ==
  [ status |-> 500, success |-> FALSE, fileName |-> name,
    extractedData |-> EmptyExtractedData, aiProcessed |-> FALSE, parseError |-> TRUE,
    message |-> <<"AI processing encountered an error">>,
    error |-> "AI processing failed - manual entry available" ]

\* the generic fallback without the data skeleton
GenericAiResponse_NoData(name) ==
  [ status |-> 200, success |-> TRUE, fileName |-> name,
    aiProcessed |-> FALSE, parseError |-> TRUE,
    message |-> <<"AI processing encountered an error">>,
    error |-> "AI processing failed - manual entry available" ]

\* lines 528-544
GenericAiResponse(name) ==
  [ status |-> 200, success |-> TRUE, fileName |-> name,
    extractedData |-> EmptyExtractedData, aiProcessed |-> FALSE, parseError |-> TRUE,
    message |-> <<"AI processing encountered an error">>,
    error |-> "AI processing failed - manual entry available" ]

\* lines 558-574
OuterFallbackResponse(name) ==
  [ status |-> 200, success |-> TRUE, fileName |-> name,
    extractedData |-> EmptyExtractedData, aiProcessed |-> FALSE, parseError |-> TRUE,
    message |-> <<"File uploaded successfully, but AI processing failed">>,
    error |-> "AI processing failed, manual entry required" ]

\* ------------------------------------------------------------ model errors
\* the substrings of a lower-cased error message the handler tests for
Markers ==
  { "overloaded", "503", "rate limit", "temporarily unavailable",
    "quota", "limit", "api key", "unauthorized" }

\* a message containing 'rate limit' contains 'limit'
Messages ==
  { m \in SUBSET Markers : Cardinality(m) <= MaxMarkers /\ ("rate limit" \in m => "limit" \in m) }

\* errorMessage.includes(s)
includes(m, s) == s \in m

NoError == [ thrown |-> "none", message |-> {} ]
\* a thrown value that is not an Error
NonError == [ thrown |-> "non-Error", message |-> {} ]
ErrorOf(m) == [ thrown |-> "Error", message |-> m ]
Thrown == { NonError } \cup { ErrorOf(m) : m \in Messages }

\* every Error is taken for transient
isRetryable_AnyError(e) == e.thrown = "Error"

\* lines 384-391: retryError instanceof Error and its message looks transient
isRetryable(e) ==
  /\ e.thrown = "Error"
  /\ \/ includes(e.message, "overloaded")
     \/ includes(e.message, "503")
     \/ includes(e.message, "rate limit")
     \/ includes(e.message, "temporarily unavailable")

RECURSIVE pow2(_)
\* Math.pow(2, n)
pow2(n) == IF n = 0 THEN 1 ELSE 2 * pow2(n - 1)

\* the delay grows by baseDelay with each retry
backoffDelay_Linear(count) == baseDelay * count

\* line 394, with retryCount already incremented
backoffDelay(count) == baseDelay * pow2(count - 1)

\* the last retry is left out
shouldRetry_OneShort(e, count) == isRetryable(e) /\ count < maxRetries

\* lines 384-398: the failure is retried after a delay
shouldRetry(e, count) == isRetryable(e) /\ count <= maxRetries

\* the credential branch is missing
aiErrorResponse_NoCredentialBranch(name, e) ==
  IF e.thrown = "Error" /\ (includes(e.message, "overloaded") \/ includes(e.message, "503"))
    THEN OverloadedResponse(name)
  ELSE IF e.thrown = "Error" /\ (includes(e.message, "quota") \/ includes(e.message, "limit"))
    THEN QuotaResponse(name)
  ELSE GenericAiResponse(name)

\* the quota test comes before the overload test
aiErrorResponse_QuotaFirst(name, e) ==
  IF e.thrown = "Error" /\ (includes(e.message, "quota") \/ includes(e.message, "limit"))
    THEN QuotaResponse(name)
  ELSE IF e.thrown = "Error" /\ (includes(e.message, "overloaded") \/ includes(e.message, "503"))
    THEN OverloadedResponse(name)
  ELSE IF e.thrown = "Error" /\ (includes(e.message, "api key") \/ includes(e.message, "unauthorized"))
    THEN CredentialResponse
  ELSE GenericAiResponse(name)

\* lines 469-544: catch (aiError)
aiErrorResponse(name, e) ==
  IF e.thrown = "Error" /\ (includes(e.message, "overloaded") \/ includes(e.message, "503"))
    THEN OverloadedResponse(name)
  ELSE IF e.thrown = "Error" /\ (includes(e.message, "quota") \/ includes(e.message, "limit"))
    THEN QuotaResponse(name)
  ELSE IF e.thrown = "Error" /\ (includes(e.message, "api key") \/ includes(e.message, "unauthorized"))
    THEN CredentialResponse
  ELSE GenericAiResponse(name)

\* ----------------------------------------------------------- model replies
\* what the reply carries where the JSON object is expected
ReplyBodies == { "full", "noSkills", "badSkills", "emptyObject", "null", "garbage", "broken" }
\* what follows it: nothing, prose, prose with braces in it
ReplyTrailers == { "none", "prose", "braceProse" }
ReplyLens == { 40, 1500 }

Replies == [ fenced : BOOLEAN, body : ReplyBodies, trailing : ReplyTrailers, len : ReplyLens ]
NoReply == [ fenced |-> FALSE, body |-> "no-reply", trailing |-> "none", len |-> 0 ]

SchemaKeys == { "name", "email", "phone", "skills", "experience", "education", "summary" }

\* JSON.parse of the body alone
jsonOf(body) ==
  CASE body = "full" -> [ type |-> "object", keys |-> SchemaKeys, skills |-> "array" ]
    [] body = "noSkills" -> [ type |-> "object", keys |-> SchemaKeys \ { "skills" }, skills |-> "absent" ]
    [] body = "badSkills" -> [ type |-> "object", keys |-> SchemaKeys, skills |-> "string" ]
    [] body = "emptyObject" -> [ type |-> "object", keys |-> {}, skills |-> "absent" ]
    [] body = "null" -> [ type |-> "null", keys |-> {}, skills |-> "absent" ]
    [] OTHER -> [ type |-> "SyntaxError", keys |-> {}, skills |-> "absent" ]

\* lines 420-425: the code fences are removed, the text is trimmed
stripFences(r) == [ r EXCEPT !.fenced = FALSE ]

\* line 427: JSON.parse(text) takes the whole text
directParse(text) ==
  IF text.trailing = "none" THEN jsonOf(text.body)
  ELSE [ type |-> "SyntaxError", keys |-> {}, skills |-> "absent" ]

\* lines 430-433
normalizeSkills(d) ==
  IF d.skills # "array" THEN [ d EXCEPT !.skills = "array", !.keys = @ \cup { "skills" } ] ELSE d

\* line 448: text.match(/\{[\s\S]*\}/) finds a span
hasSpan(text) ==
  text.body \in { "full", "noSkills", "badSkills", "emptyObject", "broken" } \/ text.trailing = "braceProse"

\* line 451: the span runs from the first '{' to the last '}' of the text
spanParse(text) ==
  IF text.trailing = "braceProse" THEN [ type |-> "SyntaxError", keys |-> {}, skills |-> "absent" ]
  ELSE jsonOf(text.body)

min(a, b) == IF a < b THEN a ELSE b

\* lines 547-552
SuccessResponse(name, data) ==
  [ status |-> 200, success |-> TRUE, fileName |-> name, extractedData |-> data, aiProcessed |-> TRUE ]

\* the raw response is not cut
ParseFailureResponse_Untruncated(text, error) ==
  [ status |-> 500, error |-> error, rawResponse |-> text.len ]

\* lines 454-465
ParseFailureResponse(text, error) ==
  [ status |-> 500, error |-> error, rawResponse |-> min(text.len, RawResponseMax) ]

\* lines 418-467 and 547-552: from the reply text to the response
parseReply(name, r) ==
  LET text == stripFences(r)
      direct == directParse(text)
      span == spanParse(text)
  IN  IF direct.type = "object" THEN SuccessResponse(name, normalizeSkills(direct))
      ELSE IF ~hasSpan(text)
        THEN ParseFailureResponse(text, "Failed to parse AI response - no valid JSON found")
      ELSE IF span.type = "object" THEN SuccessResponse(name, span)
      ELSE ParseFailureResponse(text, "Failed to parse AI response")

\* the credential test never fires
credentialMissing_Never(key) == FALSE

\* line 66: !process.env.NEXT_PUBLIC_GEMINI
credentialMissing(key) == ~key

\* -------------------------------------------------------------------- state
VARIABLES
  pc,               \* the await the handler is suspended at, or "done"
  request,          \* the multipart body: a file, no file, or not a form
  apiKey,           \* process.env.NEXT_PUBLIC_GEMINI is set
  fileName,         \* let fileName
  fileData,         \* let fileData: "null" or the MIME type of the inline data
  prompt,           \* let prompt
  textContent,      \* let textContent
  extractionMethod, \* let extractionMethod
  rawResult,        \* the call of mammoth.extractRawText
  htmlResult,       \* the call of mammoth.convertToHtml
  plainText,        \* the buffer as read by the plain-text layer
  retryCount,       \* let retryCount
  invocations,      \* calls of model.generateContent made
  delays,           \* the setTimeout delays waited for, in order
  lastError,        \* the value the last catch clause holds
  reply,            \* response.text()
  outcomes,         \* how each generateContent call settled, in order
  response          \* the NextResponse returned

\* the client hook useFileUpload
VARIABLES
  isUploading,      \* useState(false)
  uploadProgress,   \* useState({}): file name -> percentage
  calls,            \* the calls of uploadSingleFile and uploadMultipleFiles
  ticks             \* firings of the progress intervals so far

hookVars == << isUploading, uploadProgress, calls, ticks >>

\* a second invocation of POST on the same server process
VARIABLES
  parked,           \* the invocation that is suspended at an await
  current           \* which of the two invocations is running

pairVars == << parked, current >>

vars ==
  << pc, request, apiKey, fileName, fileData, prompt, textContent, extractionMethod,
     rawResult, htmlResult, plainText, retryCount, invocations, delays, lastError,
     reply, outcomes, response, hookVars, pairVars >>

\* the calls of the hook that are followed
CallIds == { 1, 2 }

\* the state {} of uploadProgress
EmptyProgress == [ n \in {} |-> 0 ]

\* a call that has not been made
NoCall ==
  [ kind |-> "none", files |-> << >>, tasks |-> << >>, outOfOrder |-> FALSE,
    state |-> "idle", value |-> NoResponse, results |-> << >>, resetPending |-> FALSE ]

\* lines 664-665: the hook as mounted
HookIdle ==
  /\ isUploading = FALSE
  /\ uploadProgress = EmptyProgress
  /\ calls = [ c \in CallIds |-> NoCall ]
  /\ ticks = 0

NoBuffer == [ read |-> FALSE, utf8Len |-> 0 ]

\* no second invocation
NoFrame == [ pc |-> "none" ]

\* the server handles one request
PairIdle == parked = NoFrame /\ current = 1

Init ==
  /\ pc = "formData"
  /\ request \in Requests
  /\ apiKey \in BOOLEAN
  /\ fileName = << "unknown" >>
  /\ fileData = "null"
  /\ prompt = NoPrompt
  /\ textContent = EmptyText
  /\ extractionMethod = "unknown"
  /\ rawResult = NotCalled
  /\ htmlResult = NotCalled
  /\ plainText = NoBuffer
  /\ retryCount = 0
  /\ invocations = 0
  /\ delays = << >>
  /\ lastError = NoError
  /\ reply = NoReply
  /\ outcomes = << >>
  /\ response = NoResponse
  /\ HookIdle
  /\ PairIdle

docVars == << textContent, extractionMethod, rawResult, htmlResult, plainText >>
aiVars == << retryCount, invocations, delays, lastError, reply, outcomes >>

\* return NextResponse.json(r)
Respond(r) == response' = r /\ pc' = "done"

\* line 370 onwards: the loop is entered and generateContent is called
EnterRetryLoop ==
  /\ pc' = "generateContent"
  /\ invocations' = invocations + 1
  /\ response' = response

\* lines 12-43: the form data has arrived; the file is validated
ReceiveFormData ==
  /\ pc = "formData"
  /\ UNCHANGED << hookVars, pairVars >>
  /\ IF request = Malformed
       THEN Respond(OuterFallbackResponse(fileName)) /\ UNCHANGED fileName
     ELSE IF request = NoFile
       THEN Respond(NoFileResponse) /\ UNCHANGED fileName
     ELSE /\ fileName' = request.name
          /\ IF invalidFileType(request)
               THEN Respond(InvalidTypeResponse)
               ELSE pc' = "arrayBuffer" /\ response' = response
  /\ UNCHANGED << request, apiKey, fileData, prompt >>
  /\ UNCHANGED docVars
  /\ UNCHANGED aiVars

\* lines 59-96 and 232-236: the bytes have arrived; the credential is
\* checked and the file is routed by its type
ReadBuffer ==
  /\ pc = "arrayBuffer"
  /\ UNCHANGED << hookVars, pairVars >>
  /\ UNCHANGED << request, apiKey, fileName, retryCount, delays, lastError, reply, outcomes,
                  htmlResult, plainText, extractionMethod >>
  /\ IF credentialMissing(apiKey)
       THEN /\ Respond(NotConfiguredResponse)
            /\ UNCHANGED << fileData, prompt, textContent, rawResult, invocations >>
     ELSE IF isImageOrPdf(request)
       THEN /\ fileData' = request.type
            /\ prompt' = FilePrompt(request)
            /\ EnterRetryLoop
            /\ UNCHANGED << textContent, rawResult >>
     ELSE IF isText(request)
       THEN /\ \E b \in Buffers : prompt' = TextPrompt(Utf8Text(b))
            /\ EnterRetryLoop
            /\ UNCHANGED << fileData, textContent, rawResult >>
     ELSE IF isWord(request)
       THEN /\ rawResult' = Pending
            /\ pc' = "extractRawText"
            /\ UNCHANGED << fileData, prompt, textContent, invocations, response >>
     ELSE /\ Respond(UnsupportedResponse)
          /\ UNCHANGED << fileData, prompt, textContent, rawResult, invocations >>

\* lines 174-231: the plain-text layer, the final validation, the prompt
FinishExtraction(text, method) ==
  \E b \in Buffers :
    LET r == AfterSalvage(text, method, b)
        why == DocErrorOf(r.text)
    IN  /\ plainText' = IF SalvageAttempted(text) THEN [ read |-> TRUE, utf8Len |-> b.utf8Len ]
                        ELSE plainText
        /\ textContent' = r.text
        /\ extractionMethod' = r.method
        /\ IF why # "none"
             THEN /\ Respond(DocFallbackResponse(fileName, why))
                  /\ UNCHANGED << prompt, invocations >>
             ELSE /\ prompt' = DocPrompt(r.method, r.text)
                  /\ EnterRetryLoop

\* lines 105-120: extractRawText has settled
ExtractRawTextDone ==
  /\ pc = "extractRawText"
  /\ UNCHANGED << hookVars, pairVars >>
  /\ UNCHANGED << request, apiKey, fileName, fileData, retryCount, delays, lastError, reply,
                  outcomes >>
  /\ \E o \in RawOutcomes :
       LET text == IF o.status = "returned" THEN o.value ELSE textContent
           method == IF o.status = "returned" THEN "raw-text" ELSE extractionMethod
       IN  /\ rawResult' = o
           /\ IF needsHtml(text)
                THEN /\ htmlResult' = Pending
                     /\ pc' = "convertToHtml"
                     /\ textContent' = text
                     /\ extractionMethod' = method
                     /\ UNCHANGED << plainText, prompt, invocations, response >>
                ELSE /\ FinishExtraction(text, method)
                     /\ UNCHANGED htmlResult

\* lines 121-172: convertToHtml has settled
ConvertToHtmlDone ==
  /\ pc = "convertToHtml"
  /\ UNCHANGED << hookVars, pairVars >>
  /\ UNCHANGED << request, apiKey, fileName, fileData, retryCount, delays, lastError, reply,
                  outcomes, rawResult >>
  /\ \E o \in HtmlOutcomes :
       LET text == IF o.status = "returned" THEN HtmlToText(o.value) ELSE textContent
           method == IF o.status = "returned" THEN "html-fallback" ELSE extractionMethod
       IN  /\ htmlResult' = [ o EXCEPT !.value = IF o.status = "returned" THEN HtmlToText(o.value)
                                                  ELSE EmptyText ]
           /\ FinishExtraction(text, method)

\* the transient markers of a rejection, as the model service sent it
TransientMarkers == { "overloaded", "503", "rate limit", "temporarily unavailable" }

\* how a rejected call is recorded: by the look of the thrown value
Settled(e) ==
  IF e.thrown = "Error" /\ e.message \cap TransientMarkers # {} THEN "transient" ELSE "permanent"

\* lines 370-405 and 469-545: generateContent has settled
GenerateContentDone ==
  /\ pc = "generateContent"
  /\ UNCHANGED << hookVars, pairVars >>
  /\ UNCHANGED << request, apiKey, fileName, fileData, prompt, invocations, reply >>
  /\ UNCHANGED docVars
  /\ \/ \* resolved: break
        /\ pc' = "response"
        /\ outcomes' = Append(outcomes, "resolved")
        /\ UNCHANGED << retryCount, delays, lastError, response >>
     \/ \* rejected: catch (retryError)
        \E e \in Thrown :
          LET count == retryCount + 1
          IN  /\ retryCount' = count
              /\ lastError' = e
              /\ outcomes' = Append(outcomes, Settled(e))
              /\ IF shouldRetry(e, count)
                   THEN /\ delays' = Append(delays, backoffDelay(count))
                        /\ pc' = "backoff"
                        /\ response' = response
                   ELSE /\ Respond(aiErrorResponse(fileName, e))
                        /\ UNCHANGED delays

\* lines 396-397 and 370-376: the delay has passed; the loop calls again
BackoffDone ==
  /\ pc = "backoff"
  /\ UNCHANGED << hookVars, pairVars >>
  /\ retryCount <= maxRetries
  /\ lastError' = NoError
  /\ EnterRetryLoop
  /\ UNCHANGED << request, apiKey, fileName, fileData, prompt, retryCount, delays, reply,
                  outcomes >>
  /\ UNCHANGED docVars

\* lines 411-467 and 547-552: the reply text is read and parsed
ResponseText ==
  /\ pc = "response"
  /\ UNCHANGED << hookVars, pairVars >>
  /\ UNCHANGED << request, apiKey, fileName, fileData, prompt, retryCount, invocations, delays,
                  outcomes >>
  /\ UNCHANGED docVars
  /\ \/ \E r \in Replies :
          /\ reply' = r
          /\ Respond(parseReply(fileName, r))
          /\ UNCHANGED lastError
     \/ \* response.text() throws: catch (aiError)
        \E e \in Thrown :
          /\ lastError' = e
          /\ Respond(aiErrorResponse(fileName, e))
          /\ UNCHANGED reply

Next ==
  \/ ReceiveFormData
  \/ ReadBuffer
  \/ ExtractRawTextDone
  \/ ConvertToHtmlDone
  \/ GenerateContentDone
  \/ BackoffDone
  \/ ResponseText

Spec == Init /\ [][Next]_vars

\* every await of the handler settles: the library and the model answer or
\* fail, and the timer of a backoff fires
FairSpec == Spec /\ WF_vars(Next)

\* =================================================================== claims
Done == pc = "done"

Last(q) == q[Len(q)]

\* the first n calls all failed with a transient error
AllTransient(n) == n <= Len(outcomes) /\ \A i \in 1..n : outcomes[i] = "transient"

\* the keys of the extractedData of a response that has one
ExtractedKeys(r) == IF r.aiProcessed THEN r.extractedData.keys ELSE DOMAIN r.extractedData

\* the file passes neither check of the allow-lists
OutsideAllowLists(f) == f.type \notin allowedTypes /\ fileExtension(f) \notin allowedExtensions

\* the extraction layers have run to their end
ExtractionFinished == rawResult.status \in { "threw", "returned" } /\ pc \notin { "extractRawText", "convertToHtml" }

\* C1 as stated: every accepted file, whatever the credential state and the
\* model outcomes, gets a response whose extractedData has the seven keys.
C1_AlwaysExtractedData ==
  (Done /\ Accepted(request)) =>
    ("extractedData" \in DOMAIN response /\ SchemaKeys \subseteq ExtractedKeys(response))

\* C1 amended: for an accepted file the response carries extractedData
\* exactly when its status is 200; with aiProcessed false it is the empty
\* skeleton of the seven keys, with aiProcessed true it is the object parsed
\* from the reply.  Without extractedData the response is the 500 of a
\* missing credential, the 400 of a file no branch takes, the 500 of an
\* unparseable reply or the 401 of a credential error.
C1_ExtractedDataOn200 ==
  (Done /\ Accepted(request)) =>
    /\ ("extractedData" \in DOMAIN response) <=> (response.status = 200)
    /\ response.status = 200 =>
         IF response.aiProcessed
           THEN reply # NoReply /\ response.extractedData.type = "object"
           ELSE response.extractedData = EmptyExtractedData /\ DOMAIN response.extractedData = SchemaKeys
    /\ response.status # 200 =>
         \/ ~apiKey /\ response.status = 500
         \/ apiKey /\ invocations = 0 /\ response.status = 400 /\ ~isValidMimeType(request)
         \/ reply # NoReply /\ response.status = 500
         \/ lastError.thrown = "Error" /\ response.status = 401

\* C1 witness: an accepted file whose model call failed got the skeleton
C1_Witness ==
  /\ Done /\ Accepted(request) /\ outcomes = << "permanent" >>
  /\ response.status = 200 /\ ~response.aiProcessed
  /\ response.extractedData = EmptyExtractedData

\* C2: after k <= maxRetries transient failures the handler goes on to
\* invocation k+1, and when that one succeeds it has used exactly k+1
\* invocations and goes on to read and parse the reply.
C2_RetryUntilSuccess ==
  /\ (outcomes # << >> /\ Len(outcomes) <= maxRetries /\ AllTransient(Len(outcomes))) =>
       /\ pc \in { "backoff", "generateContent" }
       /\ response = NoResponse
       /\ invocations = IF pc = "backoff" THEN Len(outcomes) ELSE Len(outcomes) + 1
  /\ (outcomes # << >> /\ Last(outcomes) = "resolved" /\ AllTransient(Len(outcomes) - 1)) =>
       /\ Len(outcomes) <= maxRetries + 1
       /\ invocations = Len(outcomes)
       /\ retryCount = Len(outcomes) - 1
       /\ pc \in { "response", "done" }
       /\ Done => (reply # NoReply \/ lastError # NoError)

\* C2 witness: three transient failures, then the fourth call succeeds
C2_Witness ==
  /\ outcomes = << "transient", "transient", "transient", "resolved" >>
  /\ invocations = 4 /\ pc = "response"

\* C3: when the fourth consecutive call fails with an 'overloaded' error
\* there is no fifth call and the response is the overloaded fallback:
\* status 200, success, aiProcessed false, parseError, retryRecommended and
\* the empty skeleton.
C3_FourOverloads ==
  (Done /\ Len(outcomes) = 4 /\ AllTransient(4) /\ includes(lastError.message, "overloaded")) =>
    /\ invocations = 4
    /\ response.status = 200 /\ response.success /\ ~response.aiProcessed
    /\ response.parseError
    /\ "retryRecommended" \in DOMAIN response /\ response.retryRecommended
    /\ response.extractedData = EmptyExtractedData

\* C3 witness: four transient failures, the last one overloaded
C3_Witness ==
  /\ Done /\ Len(outcomes) = 4 /\ AllTransient(4)
  /\ lastError = ErrorOf({ "overloaded" })
  /\ response = OverloadedResponse(fileName)

\* C4: a failure that does not look transient (no transient marker in the
\* message, or not an Error) is followed by no further call and no delay:
\* the handler answers at once with the classification of that failure.
C4_PermanentNotRetried ==
  (outcomes # << >> /\ Last(outcomes) = "permanent") =>
    /\ Done
    /\ invocations = Len(outcomes)
    /\ Len(delays) = Len(outcomes) - 1
    /\ response = aiErrorResponse(fileName, lastError)

\* C4 witness: a transient failure was retried, then a non-Error was thrown
C4_Witness ==
  /\ outcomes = << "transient", "permanent" >> /\ lastError = NonError
  /\ Done /\ invocations = 2 /\ Len(delays) = 1

\* C5 as stated: when all four calls fail with a transient error of any
\* kind the response is a success-shaped fallback, never a 4xx or 5xx.
C5_TransientExhaustedFallback ==
  (Done /\ Len(outcomes) = 4 /\ AllTransient(4)) =>
    /\ response.status = 200 /\ response.success /\ ~response.aiProcessed
    /\ response.extractedData = EmptyExtractedData

\* C6: a file outside both allow-lists is answered with 400 and neither an
\* extraction layer nor the model is called for it.
C6_InvalidTypeRejected ==
  (request \in Files /\ OutsideAllowLists(request)) =>
    /\ pc \in { "formData", "done" }
    /\ rawResult = NotCalled /\ htmlResult = NotCalled /\ ~plainText.read
    /\ invocations = 0
    /\ Done => response.status = 400

\* C6 witness: an image/gif named cv.exe has been rejected
C6_Witness ==
  /\ Done /\ request = [ name |-> << "cv", "exe" >>, type |-> "image/gif" ]
  /\ response = InvalidTypeResponse

\* C7 as stated: a request with a file is answered 4xx only if the file is
\* outside both allow-lists.
C7_ClientErrorOnlyIfBothFail ==
  (Done /\ request \in Files /\ response.status \in 400..499) => OutsideAllowLists(request)

\* C8: when raw-text extraction returns at least 50 characters the HTML
\* conversion is never called, the buffer is never read as plain text, and
\* the final text is the raw-text result with the tag 'raw-text'.
C8_RawTextShortCircuit ==
  (rawResult.status = "returned" /\ rawResult.value.len >= 50) =>
    /\ htmlResult = NotCalled
    /\ ~plainText.read
    /\ textContent = rawResult.value
    /\ extractionMethod = "raw-text"
    /\ prompt.kind = "document" => (prompt.text = rawResult.value /\ prompt.method = "raw-text")

\* C8 witness: a raw text of exactly 50 characters went to the model
C8_Witness ==
  /\ rawResult.status = "returned" /\ rawResult.value.len = 50
  /\ prompt = DocPrompt("raw-text", rawResult.value) /\ invocations = 1

\* C9: when raw-text extraction throws or yields fewer than 50 characters
\* and the cleaned HTML text has at least 20, the final text is the cleaned
\* HTML text, the plain-text layer is not attempted, the tag is
\* 'html-fallback', and a prompt that is built carries that text.
C9_HtmlFallbackWins ==
  ( /\ rawResult.status = "threw" \/ (rawResult.status = "returned" /\ rawResult.value.len < 50)
    /\ htmlResult.status = "returned" /\ htmlResult.value.len >= 20 ) =>
    /\ textContent = htmlResult.value
    /\ textContent.src = "html"
    /\ ~plainText.read
    /\ extractionMethod = "html-fallback"
    /\ prompt.kind = "document" => (prompt.text = htmlResult.value /\ prompt.method = "html-fallback")

\* C9 witness: raw text of 10 characters, cleaned HTML of exactly 20, sent on
C9_Witness ==
  /\ rawResult.status = "returned" /\ rawResult.value.len = 10
  /\ htmlResult.status = "returned" /\ htmlResult.value.len = 20
  /\ prompt = DocPrompt("html-fallback", htmlResult.value) /\ invocations = 1

\* C10: when the three layers leave a final text shorter than 10 characters
\* the response is status 200 with success, aiProcessed false, parseError
\* and the empty skeleton, and the model is not called.
C10_UnreadableFallback ==
  (ExtractionFinished /\ textContent.len < 10) =>
    /\ Done
    /\ invocations = 0
    /\ response.status = 200 /\ response.success /\ ~response.aiProcessed /\ response.parseError
    /\ response.extractedData = EmptyExtractedData

\* C10 witness: all three layers ran and left 9 characters
C10_Witness ==
  /\ Done /\ rawResult.status = "returned" /\ htmlResult.status = "returned" /\ plainText.read
  /\ extractionMethod = "plain-text-fallback" /\ textContent.len = 9
  /\ response.status = 200

\* more than half of the characters of the text are special characters
Garbled(text) == 2 * text.special > text.len

\* a reply body that is a valid JSON object
ObjectBodies == { "full", "noSkills", "badSkills", "emptyObject" }

\* C11 as stated: a DOC/DOCX file whose final text is dominated by special
\* characters, whatever its length, gets the unreadable-document fallback
\* and its text is not sent to the model.
C11_GarbledAnyLength ==
  (ExtractionFinished /\ Garbled(textContent)) =>
    /\ Done /\ invocations = 0
    /\ response.status = 200 /\ response.success /\ ~response.aiProcessed /\ response.parseError

\* C11 amended: a DOC/DOCX file whose final text is shorter than 100
\* characters and dominated by special characters gets the
\* unreadable-document fallback and its text is not sent to the model.
C11_GarbledShortText ==
  (ExtractionFinished /\ Garbled(textContent) /\ textContent.len < 100) =>
    /\ Done /\ invocations = 0 /\ prompt = NoPrompt
    /\ response.status = 200 /\ response.success /\ ~response.aiProcessed /\ response.parseError
    /\ response.extractedData = EmptyExtractedData

\* C11 witness: a garbled text of 50 characters was answered with the fallback
C11_Witness ==
  /\ Done /\ textContent.len = 50 /\ textContent.special = 50
  /\ response = DocFallbackResponse(fileName, "corrupted-or-unsupported-encoding")

\* C12 as stated: a fenced reply holding a valid JSON object followed by
\* prose, with or without braces in the prose, is parsed and the extracted
\* data is the object of the first balanced span.
C12_FencedJsonWithProse ==
  ( /\ Done /\ reply # NoReply /\ reply.fenced
    /\ reply.body \in ObjectBodies /\ reply.trailing \in { "prose", "braceProse" } ) =>
    /\ response.status = 200 /\ response.aiProcessed
    /\ response.extractedData = jsonOf(reply.body)

\* C13 as stated: in every response with aiProcessed true the skills of
\* extractedData are an array, on the direct path and the repair path alike.
C13_SkillsAlwaysArray ==
  (Done /\ response.status = 200 /\ response.aiProcessed) =>
    /\ "skills" \in response.extractedData.keys
    /\ response.extractedData.skills = "array"

\* the message of the failure names the credential
NamesCredential(e) ==
  e.thrown = "Error" /\ ("api key" \in e.message \/ "unauthorized" \in e.message)

\* JSON.parse of the fence-stripped reply fails
DirectFails(r) == r.trailing # "none" \/ r.body \in { "garbage", "broken" }

\* the reply has no {...} span that parses
SpanFails(r) == r.trailing = "braceProse" \/ r.body \notin ObjectBodies

\* C16 as stated: the status is 200, 400, 401 or 500; 400 only for a
\* missing file or a file outside both allow-lists, 500 only for a missing
\* credential or an unparseable reply, 401 only for a credential error of
\* the model; a 200 has success true, and with aiProcessed false also
\* parseError true and the empty skeleton.
C16_StatusCodes ==
  Done =>
    /\ response.status \in { 200, 400, 401, 500 }
    /\ response.status = 400 => (request = NoFile \/ (request \in Files /\ OutsideAllowLists(request)))
    /\ response.status = 500 => (~apiKey \/ (reply # NoReply /\ SpanFails(reply)))
    /\ response.status = 401 => NamesCredential(lastError)
    /\ response.status = 200 =>
         /\ response.success
         /\ ~response.aiProcessed =>
              (response.parseError /\ response.extractedData = EmptyExtractedData)

\* C17: without the credential every accepted file is answered with status
\* 500 and an error message, and no extraction layer and no model call
\* happens for it.
C17_MissingCredential ==
  (request \in Files /\ Accepted(request) /\ ~apiKey) =>
    /\ pc \in { "formData", "arrayBuffer", "done" }
    /\ rawResult = NotCalled /\ htmlResult = NotCalled /\ ~plainText.read
    /\ invocations = 0 /\ prompt = NoPrompt
    /\ Done => (response.status = 500 /\ "error" \in DOMAIN response)

\* C17 witness: a Word file was answered 500 before any extraction
C17_Witness ==
  /\ Done /\ ~apiKey /\ request \in Files
  /\ isWord(request) /\ fileExtension(request) = "doc"
  /\ response = NotConfiguredResponse /\ rawResult = NotCalled

\* C18 as stated: a model failure whose message contains 'api key' or
\* 'unauthorized' is answered with status 401 and no extractedData,
\* whatever else the message contains.
C18_CredentialErrorAlways401 ==
  (Done /\ NamesCredential(lastError)) =>
    (response.status = 401 /\ "extractedData" \notin DOMAIN response)

\* C18 amended: a model failure whose message contains 'api key' or
\* 'unauthorized' and none of 'overloaded', '503', 'quota', 'limit' is
\* answered with status 401 and no extractedData.
C18_CredentialError401 ==
  ( /\ Done /\ NamesCredential(lastError)
    /\ lastError.message \cap { "overloaded", "503", "quota", "limit" } = {} ) =>
    (response.status = 401 /\ "extractedData" \notin DOMAIN response)

\* C18 witness: an 'api key' failure of the first call was answered 401
C18_Witness ==
  /\ Done /\ lastError = ErrorOf({ "api key" }) /\ outcomes = << "permanent" >>
  /\ response = CredentialResponse

\* C19: when the model call succeeded and neither the fence-stripped reply
\* nor its {...} span parses, the response is status 500 with an error, a
\* rawResponse of at most 1000 characters and no extractedData, and the
\* model is not called again.
C19_ParseFailure ==
  (Done /\ reply # NoReply /\ DirectFails(reply) /\ SpanFails(reply)) =>
    /\ response.status = 500 /\ "error" \in DOMAIN response
    /\ "rawResponse" \in DOMAIN response /\ response.rawResponse <= 1000
    /\ "extractedData" \notin DOMAIN response
    /\ Last(outcomes) = "resolved" /\ invocations = Len(outcomes)

\* C19 witness: a reply of 1500 characters without JSON was cut to 1000
C19_Witness ==
  /\ Done /\ reply.body = "garbage" /\ reply.len = 1500
  /\ response.status = 500 /\ response.rawResponse = 1000

\* the failure falls in none of the classes the handler tells apart
Unclassified(e) ==
  /\ e.thrown # "none"
  /\ e.thrown = "Error" =>
       e.message \cap { "overloaded", "503", "quota", "limit", "api key", "unauthorized" } = {}

\* C20: whatever the request and the model outcomes, the handler comes to
\* its end, returns a response, and returns only one; a failure of the form
\* data or an unclassified failure of the model is answered with status
\* 200, success true, aiProcessed false and the empty skeleton.
C20_TerminatesWithOneResponse ==
  /\ <>Done
  /\ [](Done => response.status \in { 200, 400, 401, 500 })
  /\ []((Done /\ (request = Malformed \/ Unclassified(lastError))) =>
          /\ response.status = 200 /\ response.success /\ ~response.aiProcessed
          /\ response.extractedData = EmptyExtractedData)
  /\ [][response' # response => (response = NoResponse /\ pc # "done" /\ pc' = "done")]_vars

\* C20 witness: the third call threw a value that is not an Error and the
\* handler answered with the generic fallback
C20_Witness ==
  /\ Done /\ lastError = NonError /\ outcomes = << "transient", "transient", "permanent" >>
  /\ response = GenericAiResponse(fileName)

\* ============================================================ client hook
\* ------------------------------------------------------------------ bounds
\* most files one call of uploadMultipleFiles is given
MaxFiles == 3
\* most firings of progress intervals that are followed
MaxTicks == 1

\* the i-th file of the user's folder, named as the handler names files
HookFile(i) == << ToString(i), "pdf" >>

\* the files handed to uploadSingleFile
HookFiles == { HookFile(1), HookFile(2) }

\* the arguments of uploadMultipleFiles: the first n files of the folder
FileLists == { [ i \in 1..n |-> HookFile(i) ] : n \in 1..MaxFiles }

\* ----------------------------------------------------------- fetch outcomes
NoOutcome == [ kind |-> "none", json |-> FALSE, body |-> NoResponse ]
\* fetch rejects
NetworkFailure == [ kind |-> "rejected", json |-> FALSE, body |-> NoResponse ]
\* a response whose body is JSON
JsonResponse(b) == [ kind |-> "response", json |-> TRUE, body |-> b ]
\* a response whose body is not JSON: response.json() rejects
BadBodyResponse(status) == [ kind |-> "response", json |-> FALSE, body |-> [ status |-> status ] ]

\* a 400 whose error carries the marker of line 696
WordDocumentResponse == [ status |-> 400, error |-> "Failed to parse Word document" ]

\* bodies the endpoint answers an upload of file f with: one OK, one not
ServerBodies(f) == { SuccessResponse(f, jsonOf("full")), InvalidTypeResponse }

\* bodies only uploadSingleFile tells from those: an OK fallback skeleton
\* with aiProcessed false, and the 400 of line 696
FallbackBodies(f) == { GenericAiResponse(f), WordDocumentResponse }

\* how the fetch of file f can settle: it rejects, or it resolves with a
\* response whose body response.json() cannot read, or with a JSON response
FetchOutcomes(f) ==
  { NetworkFailure, BadBodyResponse(200) } \cup { JsonResponse(b) : b \in ServerBodies(f) }

\* what a fetch that resolved can turn out to hold once its body is read
ResponseOutcomes(f) == { o \in FetchOutcomes(f) : o.kind = "response" }

SingleResponseOutcomes(f) ==
  ResponseOutcomes(f) \cup { JsonResponse(b) : b \in FallbackBodies(f) }

\* response.ok
responseOk(o) == o.body.status \in 200..299

\* result.error && result.error.includes('Word document')
includesWordDocument(b) == "error" \in DOMAIN b /\ b.error = "Failed to parse Word document"

\* result.error || 'Upload failed'
errorOrDefault(b) == IF "error" \in DOMAIN b THEN b.error ELSE "Upload failed"

\* the message of what fetch or response.json() throws
thrownMessage(o) == IF o.kind = "rejected" THEN "Failed to fetch" ELSE "Unexpected token in JSON"

\* lines 698-714
SingleFallbackResult(f, err) ==
  [ success |-> FALSE, fileName |-> f, filePath |-> "", extractedData |-> EmptyExtractedData,
    error |-> err, aiProcessed |-> FALSE,
    message |-> << err, " You can still fill the form manually." >> ]

\* lines 775-781
FailedResult(f, msg) ==
  [ success |-> FALSE, fileName |-> f, filePath |-> "", extractedData |-> << >>, error |-> msg ]

Resolved(v) == [ state |-> "resolved", value |-> v ]
Rejected(msg) == [ state |-> "rejected", value |-> [ name |-> "Error", message |-> msg ] ]

\* no response carries the marker
fallbackMarked_Never(o) == FALSE

\* line 696: the document-parsing marker
fallbackMarked(o) == o.body.status = 400 /\ includesWordDocument(o.body)

\* lines 683-724: how uploadSingleFile settles once its fetch has settled
singleSettles(f, o) ==
  IF o.kind = "rejected" \/ ~o.json THEN Rejected(thrownMessage(o))
  ELSE IF ~responseOk(o)
    THEN IF fallbackMarked(o) THEN Resolved(SingleFallbackResult(f, o.body.error))
         ELSE Rejected(errorOrDefault(o.body))
  ELSE Resolved(o.body)

\* lines 759-782: the result of one task of uploadMultipleFiles
taskResult(f, o) ==
  IF o.kind = "rejected" \/ ~o.json THEN FailedResult(f, thrownMessage(o))
  ELSE IF ~responseOk(o) THEN FailedResult(f, errorOrDefault(o.body))
  ELSE o.body

\* the results are listed last promise first
promiseAll_Reversed(tasks) == [ i \in 1..Len(tasks) |-> tasks[Len(tasks) + 1 - i].result ]

\* line 785: Promise.all lists the results by the index of their promise
promiseAll(tasks) == [ i \in 1..Len(tasks) |-> tasks[i].result ]

\* ------------------------------------------------------------- hook actions
handlerVars ==
  << pc, request, apiKey, fileName, fileData, prompt, textContent, extractionMethod,
     rawResult, htmlResult, plainText, retryCount, invocations, delays, lastError,
     reply, outcomes, response, pairVars >>

\* the hook is followed on its own: the endpoint is what answers the fetch
HookInit == Init /\ request = NoFile /\ apiKey = FALSE

\* a task whose interval runs and whose fetch is outstanding
NewTask == [ pc |-> "fetch", timer |-> TRUE, outcome |-> NoOutcome, result |-> NoResponse ]

Range(q) == { q[i] : i \in DOMAIN q }

\* { ...prev, [name]: v }
setProgress(p, name, v) == [ n \in DOMAIN p \cup { name } |-> IF n = name THEN v ELSE p[n] ]

\* prev[name] || 0
progressOf(p, name) == IF name \in DOMAIN p THEN p[name] ELSE 0

\* the calls are numbered in the order they are made
MayStart(c) == calls[c].kind = "none" /\ \A d \in CallIds : d < c => calls[d].kind # "none"

\* the files handed to the hook so far, over all its calls
FilesStarted == Len(calls[1].files) + Len(calls[2].files)

AllDone(tasks) == \A i \in DOMAIN tasks : tasks[i].pc = "done"

\* lines 667-686: uploadSingleFile is called
StartSingle(c) ==
  /\ MayStart(c)
  /\ FilesStarted < MaxFiles
  /\ \E f \in HookFiles :
       /\ isUploading' = TRUE
       /\ uploadProgress' = [ n \in { f } |-> 0 ]
       /\ calls' = [ calls EXCEPT ![c] =
                       [ NoCall EXCEPT !.kind = "single", !.files = << f >>,
                                       !.tasks = << NewTask >>, !.state = "pending" ] ]
  /\ UNCHANGED << ticks, handlerVars >>

\* lines 733-762: uploadMultipleFiles is called
StartMultiple(c) ==
  /\ MayStart(c)
  /\ \E files \in FileLists :
       /\ FilesStarted + Len(files) <= MaxFiles
       /\ isUploading' = TRUE
       /\ uploadProgress' = [ n \in Range(files) |-> 0 ]
       /\ calls' = [ calls EXCEPT ![c] =
                       [ NoCall EXCEPT !.kind = "multiple", !.files = files,
                                       !.tasks = [ i \in DOMAIN files |-> NewTask ],
                                       !.state = "pending" ] ]
  /\ UNCHANGED << ticks, handlerVars >>

\* lines 676-681 and 752-757: a progress interval fires
Tick(c, i) ==
  /\ i \in DOMAIN calls[c].tasks
  /\ calls[c].tasks[i].timer
  /\ ticks < MaxTicks
  /\ LET name == calls[c].files[i]
         step == IF calls[c].kind = "single" THEN 10 ELSE 5
     IN  uploadProgress' =
           setProgress(uploadProgress, name, min(progressOf(uploadProgress, name) + step, 90))
  /\ ticks' = ticks + 1
  /\ UNCHANGED << isUploading, calls, handlerVars >>

\* lines 683-689 and 722-730: the fetch of uploadSingleFile has settled
SingleFetchSettled(c) ==
  /\ calls[c].kind = "single"
  /\ calls[c].tasks[1].pc = "fetch"
  /\ \E rejected \in BOOLEAN :
       IF rejected
         THEN \* catch, rethrow, finally; the interval is not cleared
              /\ calls' = [ calls EXCEPT ![c].tasks[1].pc = "done",
                                         ![c].tasks[1].outcome = NetworkFailure,
                                         ![c].state = singleSettles(calls[c].files[1], NetworkFailure).state,
                                         ![c].value = singleSettles(calls[c].files[1], NetworkFailure).value,
                                         ![c].resetPending = TRUE ]
              /\ isUploading' = FALSE
              /\ UNCHANGED uploadProgress
         ELSE /\ calls' = [ calls EXCEPT ![c].tasks[1].pc = "json", ![c].tasks[1].timer = FALSE ]
              /\ uploadProgress' = [ n \in { calls[c].files[1] } |-> 100 ]
              /\ UNCHANGED isUploading
  /\ UNCHANGED << ticks, handlerVars >>

\* lines 692-730: response.json() of uploadSingleFile has settled
SingleJsonSettled(c) ==
  /\ calls[c].kind = "single"
  /\ calls[c].tasks[1].pc = "json"
  /\ \E o \in SingleResponseOutcomes(calls[c].files[1]) :
       LET s == singleSettles(calls[c].files[1], o)
       IN  calls' = [ calls EXCEPT ![c].tasks[1].pc = "done", ![c].tasks[1].outcome = o,
                                   ![c].state = s.state, ![c].value = s.value,
                                   ![c].resetPending = TRUE ]
  /\ isUploading' = FALSE
  /\ UNCHANGED << uploadProgress, ticks, handlerVars >>

\* lines 773-792: task i has its result; with the last one Promise.all
\* resolves and the finally block runs
TaskCompletes(c, i, o, timer) ==
  LET f == calls[c].files[i]
      tasks == [ calls[c].tasks EXCEPT ![i] =
                   [ pc |-> "done", timer |-> timer, outcome |-> o, result |-> taskResult(f, o) ] ]
      \* a later task of the list has completed before this one
      outOfOrder == calls[c].outOfOrder \/ \E j \in DOMAIN tasks : j > i /\ tasks[j].pc = "done"
  IN  IF AllDone(tasks)
        THEN /\ calls' = [ calls EXCEPT ![c].tasks = tasks, ![c].outOfOrder = outOfOrder,
                                        ![c].state = "resolved",
                                        ![c].results = promiseAll(tasks),
                                        ![c].resetPending = TRUE ]
             /\ isUploading' = FALSE
        ELSE /\ calls' = [ calls EXCEPT ![c].tasks = tasks, ![c].outOfOrder = outOfOrder ]
             /\ UNCHANGED isUploading

\* lines 759-765 and 774-782: the fetch of task i has settled
MultiFetchSettled(c, i) ==
  /\ calls[c].kind = "multiple"
  /\ i \in DOMAIN calls[c].tasks
  /\ calls[c].tasks[i].pc = "fetch"
  /\ \E rejected \in BOOLEAN :
       IF rejected
         THEN \* catch; the interval is not cleared
              /\ TaskCompletes(c, i, NetworkFailure, TRUE)
              /\ UNCHANGED uploadProgress
         ELSE /\ calls' = [ calls EXCEPT ![c].tasks[i].pc = "json", ![c].tasks[i].timer = FALSE ]
              /\ uploadProgress' = setProgress(uploadProgress, calls[c].files[i], 100)
              /\ UNCHANGED isUploading
  /\ UNCHANGED << ticks, handlerVars >>

\* lines 767-782: response.json() of task i has settled
MultiJsonSettled(c, i) ==
  /\ calls[c].kind = "multiple"
  /\ i \in DOMAIN calls[c].tasks
  /\ calls[c].tasks[i].pc = "json"
  /\ \E o \in ResponseOutcomes(calls[c].files[i]) : TaskCompletes(c, i, o, FALSE)
  /\ UNCHANGED << uploadProgress, ticks, handlerVars >>

\* lines 727-729 and 789-791: the delayed reset fires
ResetProgress(c) ==
  /\ calls[c].resetPending
  /\ calls' = [ calls EXCEPT ![c].resetPending = FALSE ]
  /\ uploadProgress' = EmptyProgress
  /\ UNCHANGED << isUploading, ticks, handlerVars >>

HookNext ==
  \/ \E c \in CallIds : StartSingle(c)
  \/ \E c \in CallIds : StartMultiple(c)
  \/ \E c \in CallIds : \E i \in 1..MaxFiles : Tick(c, i)
  \/ \E c \in CallIds : SingleFetchSettled(c)
  \/ \E c \in CallIds : SingleJsonSettled(c)
  \/ \E c \in CallIds : \E i \in 1..MaxFiles : MultiFetchSettled(c, i)
  \/ \E c \in CallIds : \E i \in 1..MaxFiles : MultiJsonSettled(c, i)
  \/ \E c \in CallIds : ResetProgress(c)

SpecHook == HookInit /\ [][HookNext]_vars

\* ------------------------------------------------------ claims on the hook
\* the request of task i has failed: fetch rejected, the body could not be
\* read, or the status is not OK
RequestFailed(o) == o.kind = "rejected" \/ ~o.json \/ ~responseOk(o)

\* C14: uploadMultipleFiles never rejects; once every task is done it has
\* resolved with as many results as files, result i is that of file i whatever
\* the order of completion: success false and the file's name if the request
\* of file i failed, else the body of the response to file i, unchanged.
C14_ResultsInInputOrder ==
  \A c \in CallIds :
    calls[c].kind = "multiple" =>
      /\ calls[c].state # "rejected"
      /\ AllDone(calls[c].tasks) <=> calls[c].state = "resolved"
      /\ calls[c].state = "resolved" =>
           /\ Len(calls[c].results) = Len(calls[c].files)
           /\ \A i \in DOMAIN calls[c].files :
                LET o == calls[c].tasks[i].outcome
                    r == calls[c].results[i]
                IN  /\ r.fileName = calls[c].files[i]
                    /\ RequestFailed(o) => r.success = FALSE
                    /\ ~RequestFailed(o) => r = o.body

\* three files, the second failed, the others succeeded, and a later task
\* completed before an earlier one
C14_Witness ==
  \E c \in CallIds :
    /\ calls[c].kind = "multiple"
    /\ calls[c].state = "resolved"
    /\ Len(calls[c].files) = 3
    /\ calls[c].outOfOrder
    /\ calls[c].tasks[2].outcome = NetworkFailure
    /\ calls[c].results[2].success = FALSE
    /\ calls[c].results[1] = SuccessResponse(HookFile(1), jsonOf("full"))
    /\ calls[c].results[3] = SuccessResponse(HookFile(3), jsonOf("full"))

\* the response carries the marker the claim names: status 400 and an error
\* that contains 'Word document'
CarriesMarker(o) ==
  o.json /\ o.body.status = 400 /\ "error" \in DOMAIN o.body
         /\ o.body.error = "Failed to parse Word document"

\* uploadSingleFile throws only on a rejected fetch or a status that is not
\* OK without the marker, and resolves every OK response with its body
C15_ThrowsOnlyOnFailedStatus ==
  \A c \in CallIds :
    calls[c].kind = "single" =>
      LET o == calls[c].tasks[1].outcome
      IN  /\ calls[c].state = "rejected" =>
               o.kind = "rejected" \/ (~responseOk(o) /\ ~CarriesMarker(o))
          /\ (o.kind = "response" /\ responseOk(o)) =>
               calls[c].state = "resolved" /\ calls[c].value = o.body

\* C15: uploadSingleFile throws only when fetch rejected, when the body of
\* the response could not be read as JSON, or when the status is not OK and
\* the body does not carry the marker; a response with the marker resolves
\* with the fallback result, and every OK response whose body was read
\* resolves with that body unchanged.
C15_ThrowsOnlyOnFailedTransaction ==
  \A c \in CallIds :
    calls[c].kind = "single" =>
      LET o == calls[c].tasks[1].outcome
      IN  /\ calls[c].state = "rejected" =>
               o.kind = "rejected" \/ ~o.json \/ (~responseOk(o) /\ ~CarriesMarker(o))
          /\ (o.kind = "response" /\ o.json /\ responseOk(o)) =>
               calls[c].state = "resolved" /\ calls[c].value = o.body
          /\ (o.kind = "response" /\ CarriesMarker(o)) =>
               calls[c].state = "resolved" /\ calls[c].value.success = FALSE

\* one call threw on a 400 without the marker, another resolved with an OK
\* fallback skeleton whose aiProcessed is false
C15_Witness ==
  \E c, d \in CallIds :
    /\ calls[c].kind = "single" /\ calls[d].kind = "single"
    /\ calls[c].state = "rejected"
    /\ calls[c].tasks[1].outcome = JsonResponse(InvalidTypeResponse)
    /\ calls[d].state = "resolved"
    /\ calls[d].tasks[1].outcome.body = GenericAiResponse(calls[d].files[1])
    /\ calls[d].value = GenericAiResponse(calls[d].files[1])
    /\ calls[d].value.aiProcessed = FALSE

\* ------------------------------------------------------------ C21 .. C27
RECURSIVE SumOf(_)
SumOf(q) == IF q = << >> THEN 0 ELSE q[1] + SumOf(Tail(q))

\* C21: within one request the model is invoked at most 4 times, the wait
\* before retry k is 1000, 2000, 4000 ms for k = 1, 2, 3, there is one wait
\* per retried failure and none after the failure that ends the request, and
\* the waits add up to at most 7000 ms.
C21_BackoffDelays ==
  /\ invocations <= 4
  /\ Len(delays) <= 3
  /\ \A k \in DOMAIN delays : delays[k] = 1000 * pow2(k - 1)
  /\ delays = SubSeq(<< 1000, 2000, 4000 >>, 1, Len(delays))
  /\ SumOf(delays) <= 7000
  /\ Len(delays) = IF pc = "backoff" THEN invocations ELSE IF invocations = 0 THEN 0 ELSE invocations - 1
  /\ (outcomes # << >> /\ Last(outcomes) # "resolved" /\ pc = "done") =>
       Len(delays) = Len(outcomes) - 1

\* C21 witness: the fourth call failed like the three before it and the
\* request ended after waits of 1000, 2000 and 4000 ms
C21_Witness ==
  /\ Done /\ invocations = 4 /\ AllTransient(4)
  /\ delays = << 1000, 2000, 4000 >> /\ SumOf(delays) = 7000

\* C24 as stated: when the last of the four calls failed with a transient
\* error and no call is left, the answer recommends a retry and does not
\* report an exhausted quota.
C24_ExhaustedRecommendsRetry ==
  (Done /\ Len(outcomes) = 4 /\ AllTransient(4)) =>
    /\ "retryRecommended" \in DOMAIN response /\ response.retryRecommended
    /\ ~("quotaExceeded" \in DOMAIN response /\ response.quotaExceeded)

\* C25 as stated: once the layers of a Word document have run, the text
\* kept is at least as long as what extractRawText returned and at least as
\* long as the cleaned output of convertToHtml, when they returned.
C25_LayersNeverShorten ==
  ExtractionFinished =>
    /\ rawResult.status = "returned" => textContent.len >= rawResult.value.len
    /\ htmlResult.status = "returned" => textContent.len >= htmlResult.value.len

\* the request of task i of call c is outstanding
Outstanding(c, i) == i \in DOMAIN calls[c].tasks /\ calls[c].tasks[i].pc = "fetch"

\* no call is in progress and no delayed reset is waiting
HookQuiet == \A c \in CallIds : calls[c].state # "pending" /\ ~calls[c].resetPending

\* C22 as stated: the interval of an upload runs only while its request is
\* outstanding, and once every call has settled and the delayed resets have
\* fired the progress map is empty.
C22_TimerStopsWhenSettled ==
  /\ \A c \in CallIds : \A i \in DOMAIN calls[c].tasks :
       calls[c].tasks[i].timer => Outstanding(c, i)
  /\ HookQuiet => uploadProgress = EmptyProgress

\* C26 as stated: while the request of an upload is outstanding its file
\* has an entry in the progress map.
C26_EntryKeptWhileInFlight ==
  \A c \in CallIds : \A i \in DOMAIN calls[c].tasks :
    Outstanding(c, i) => calls[c].files[i] \in DOMAIN uploadProgress

\* C27 as stated: isUploading is true while a call that has started has not
\* settled, and false once every call made has settled.
C27_UploadingWhileAnyCallPending ==
  /\ (\E c \in CallIds : calls[c].state = "pending") => isUploading
  /\ ((\E c \in CallIds : calls[c].kind # "none") /\ (\A c \in CallIds : calls[c].state # "pending"))
       => ~isUploading

\* ------------------------------------------------ two concurrent requests
\* the invocation of POST that is running: its locals (let fileName,
\* textContent, extractionMethod, prompt, fileData, retryCount), where it
\* stands, and what it has been given and has answered
Frame ==
  [ pc |-> pc,
    request |-> request,
    fileName |-> fileName,
    fileData |-> fileData,
    prompt |-> prompt,
    textContent |-> textContent,
    extractionMethod |-> extractionMethod,
    rawResult |-> rawResult,
    htmlResult |-> htmlResult,
    plainText |-> plainText,
    retryCount |-> retryCount,
    invocations |-> invocations,
    delays |-> delays,
    lastError |-> lastError,
    reply |-> reply,
    outcomes |-> outcomes,
    response |-> response ]

\* the invocation of a request that has just arrived
NewFrame(rq) ==
  [ pc |-> "formData",
    request |-> rq,
    fileName |-> << "unknown" >>,
    fileData |-> "null",
    prompt |-> NoPrompt,
    textContent |-> EmptyText,
    extractionMethod |-> "unknown",
    rawResult |-> NotCalled,
    htmlResult |-> NotCalled,
    plainText |-> NoBuffer,
    retryCount |-> 0,
    invocations |-> 0,
    delays |-> << >>,
    lastError |-> NoError,
    reply |-> NoReply,
    outcomes |-> << >>,
    response |-> NoResponse ]

\* the local is one module-level variable: the invocation that resumes
\* finds what the other left there
resumedLocal_ModuleLevel(running, own) == running

\* lines 18-19, 75-77 and 366: the locals are declared inside POST, so an
\* invocation that resumes at its await finds its own values
resumedLocal(running, own) == own

\* the requests, texts, failures and replies of the two-request runs
PairRequests ==
  { [ name |-> << "cv", "DOCX" >>,
      type |-> "application/vnd.openxmlformats-officedocument.wordprocessingml.document" ],
    [ name |-> << "cv", "pdf" >>, type |-> "application/pdf" ] }
PairLens == { SalvageMin, MaxLen }
PairThrown == { NonError, ErrorOf({ "overloaded" }) }
PairReplies == { r \in Replies : r.body = "full" /\ ~r.fenced
                                 /\ r.trailing = "none" /\ r.len = 40 }

PairText(t) == t = EmptyText \/ (t.len \in PairLens /\ t.special = 0)

\* what the running invocation has been given lies in those sets
PairInputs ==
  /\ PairText(rawResult.value) /\ PairText(htmlResult.value)
  /\ PairText(textContent) /\ PairText(prompt.text)
  /\ plainText.utf8Len \in { 0 } \cup PairLens
  /\ lastError \in { NoError } \cup PairThrown
  /\ reply \in { NoReply } \cup PairReplies

\* the event loop: the running invocation is suspended at its await (or has
\* returned) and the other one resumes
Switch ==
  /\ parked # NoFrame
  /\ parked' = Frame
  /\ current' = 3 - current
  /\ pc' = parked.pc
  /\ request' = parked.request
  /\ fileName' = parked.fileName
  /\ fileData' = parked.fileData
  /\ prompt' = resumedLocal(prompt, parked.prompt)
  /\ textContent' = resumedLocal(textContent, parked.textContent)
  /\ extractionMethod' = resumedLocal(extractionMethod, parked.extractionMethod)
  /\ rawResult' = parked.rawResult
  /\ htmlResult' = parked.htmlResult
  /\ plainText' = parked.plainText
  /\ retryCount' = resumedLocal(retryCount, parked.retryCount)
  /\ invocations' = parked.invocations
  /\ delays' = parked.delays
  /\ lastError' = parked.lastError
  /\ reply' = parked.reply
  /\ outcomes' = parked.outcomes
  /\ response' = parked.response
  /\ UNCHANGED << apiKey, hookVars >>

\* two requests arrive; the credential is that of the process
PairInit ==
  /\ \E rq \in PairRequests :
       /\ pc = NewFrame(rq).pc
       /\ request = NewFrame(rq).request
       /\ fileName = NewFrame(rq).fileName
       /\ fileData = NewFrame(rq).fileData
       /\ prompt = NewFrame(rq).prompt
       /\ textContent = NewFrame(rq).textContent
       /\ extractionMethod = NewFrame(rq).extractionMethod
       /\ rawResult = NewFrame(rq).rawResult
       /\ htmlResult = NewFrame(rq).htmlResult
       /\ plainText = NewFrame(rq).plainText
       /\ retryCount = NewFrame(rq).retryCount
       /\ invocations = NewFrame(rq).invocations
       /\ delays = NewFrame(rq).delays
       /\ lastError = NewFrame(rq).lastError
       /\ reply = NewFrame(rq).reply
       /\ outcomes = NewFrame(rq).outcomes
       /\ response = NewFrame(rq).response
  /\ apiKey \in BOOLEAN
  /\ HookIdle
  /\ parked \in { NewFrame(rq) : rq \in PairRequests }
  /\ current = 1

HandlerStep == Next /\ PairInputs'

PairNext ==
  \/ HandlerStep
  \/ Switch

SpecPair == PairInit /\ [][PairNext]_vars

\* the invocations under way
Frames == { Frame } \cup (IF parked = NoFrame THEN { } ELSE { parked })

\* the calls of generateContent of F that failed
failuresOf(F) == Cardinality({ i \in DOMAIN F.outcomes : F.outcomes[i] # "resolved" })

\* F has gone past the extraction and has called the model
ModelCalled(F) == F.invocations > 0

\* the retry counter, text, method tag and prompt of F are those its own
\* file, extraction results and model failures give
OwnLocals(F) ==
  /\ F.retryCount = failuresOf(F)
  /\ F.invocations = Len(F.outcomes) + (IF F.pc = "generateContent" THEN 1 ELSE 0)
  /\ F.extractionMethod = "unknown" => F.textContent = EmptyText
  /\ F.extractionMethod = "raw-text" => F.textContent = F.rawResult.value
  /\ F.extractionMethod = "html-fallback" => F.textContent = F.htmlResult.value
  /\ F.extractionMethod = "plain-text-fallback" => (F.plainText.read /\ F.textContent.src = "plain")
  /\ ~isWord(F.request) => (F.textContent = EmptyText /\ F.extractionMethod = "unknown")
  /\ ModelCalled(F) =>
       IF isImageOrPdf(F.request) THEN F.prompt = FilePrompt(F.request)
       ELSE IF isText(F.request) THEN F.prompt.kind = "text"
       ELSE F.prompt = DocPrompt(F.extractionMethod, F.textContent)

\* the answer F's own file, the credential and F's own outcomes give
OwnResponse(F) ==
  IF invalidFileType(F.request) THEN InvalidTypeResponse
  ELSE IF ~apiKey THEN NotConfiguredResponse
  ELSE IF ModelCalled(F) THEN
         IF F.reply # NoReply THEN parseReply(F.fileName, F.reply)
         ELSE aiErrorResponse(F.fileName, F.lastError)
  ELSE IF isWord(F.request) /\ F.rawResult # NotCalled
         THEN DocFallbackResponse(F.fileName, DocErrorOf(F.textContent))
  ELSE UnsupportedResponse

\* C23: with two requests in progress on the server, under every
\* interleaving of their steps, the retry counter, the extracted text, the
\* method tag and the prompt of each are those its own file, extraction
\* results and model failures give, and its response is the one its own
\* file, the credential and its own model outcomes give.
C23_RequestsIndependent ==
  \A F \in Frames :
    /\ OwnLocals(F)
    /\ F.pc = "done" => F.response = OwnResponse(F)
    /\ F.pc # "done" => F.response = NoResponse

\* C23 witness: both requests are inside their retry loops at once, a Word
\* document after two failures and a PDF after one
C23_Witness ==
  /\ parked # NoFrame
  /\ pc = "backoff" /\ isWord(request) /\ retryCount = 2 /\ prompt.kind = "document"
  /\ textContent.len = SalvageMin /\ extractionMethod = "html-fallback"
  /\ parked.pc = "generateContent" /\ parked.retryCount = 1 /\ parked.invocations = 2
  /\ parked.prompt.kind = "PDF" /\ parked.textContent = EmptyText

====
